---- MODULE Spec2Model ----
(***************************************************************************)
(* The tag / validate / retry / score workflow of src/src/graph.py, driven *)
(* by the batch loop of src/src/main.py, with the thresholds of            *)
(* src/src/schemas.py.                                                     *)
(*                                                                         *)
(* Scores are kept in hundredths (0.5 is 50): the sums the scorer can form *)
(* (0.5, 0.3, 0.2 added in that order) are exact to two decimals in        *)
(* binary floating point, so round(score, 2) and the comparison with 0.65  *)
(* agree with the integer arithmetic used here.                            *)
(*                                                                         *)
(* A dict is a function from its keys; a key the program never assigned is *)
(* not in the DOMAIN.                                                      *)
(***************************************************************************)
EXTENDS Integers, Sequences, FiniteSets, TLC

VARIABLES
    env,            \* what exists outside the program: the two input files (and the
                    \* number of rows of the CSV), the API key, and the value of
                    \* Config.MIN_CONFIDENCE_TO_PUBLISH the scorer reads
    pc,             \* position of main(): "load", "loop", "invoke", "exit"
    i,              \* index of the row of df the for loop is at (0-based, as df.iterrows())
    tax_dict,       \* main's tax_dict once loaded
    node,           \* the node of the compiled graph that runs next ("END" after the scorer)
    state,          \* the ProposalState dict of the run in progress
    final_results,  \* main's final_results list
    output,         \* the rows written to Config.OUTPUT_FILE
    run,            \* history of the run in progress (not program state)
    hist            \* history of the batch (not program state)

vars == <<env, pc, i, tax_dict, node, state, final_results, output, run, hist>>

-----------------------------------------------------------------------------
(* Config, src/src/schemas.py *)

MIN_CONFIDENCE_TO_PUBLISH == 65

MAX_RETRY_ATTEMPTS == 2

MIN_EVIDENCE_CHARS == 10

(* Bound of the model: the number of rows of the input CSV. *)
MaxRows == 2

(* Bound of the model: the length, in tokens, of the replies of the model   *)
(* that are enumerated exhaustively.                                        *)
MaxTextLen == 3

-----------------------------------------------------------------------------
(* Python values *)

\* JSON null where the program expects a string: len(None) raises TypeError.
None == "#None"

\* A list element that is not a string but hashable (the JSON number 7).
NonStr == "#7"

\* A list element that is not hashable (a nested JSON array): set([...]) raises TypeError.
Unhashable == "#[]"

EmptyDict == [k \in {} |-> ""]

\* d[k] = v
SetItem(d, k, v) == (k :> v) @@ d

\* d.get(k, default)
Get(d, k, default) == IF k \in DOMAIN d THEN d[k] ELSE default

Range(s) == {s[j] : j \in 1..Len(s)}

\* str(n) of a float given in hundredths: 80 is "0.8", 65 is "0.65", 100 is "1.0"
FloatRepr(h) ==
    LET whole == h \div 100
        frac  == h % 100
    IN  ToString(whole) \o "." \o
        (IF frac % 10 = 0 THEN ToString(frac \div 10)
         ELSE ToString(frac \div 10) \o ToString(frac % 10))

\* repr of a list element: 7 for the number, 'A' for a string
ElemRepr(e) == IF e = NonStr THEN "7" ELSE "'" \o e \o "'"

RECURSIVE JoinWith(_, _)
\* sep.join(s) for a sequence of strings
JoinWith(sep, s) ==
    IF s = <<>> THEN ""
    ELSE IF Len(s) = 1 THEN s[1]
    ELSE s[1] \o sep \o JoinWith(sep, Tail(s))

-----------------------------------------------------------------------------
(* extract_json_robust, src/src/graph.py                                    *)
(*                                                                          *)
(* The model's reply is a sequence of tokens (white space between tokens is *)
(* not kept: the pattern's \s* and json.loads both skip it):                *)
(*   "fence" a code fence (three backquotes)   "json"  the word json        *)
(*   "{" "}" braces               "k"     the members of an object: the     *)
(*   "w"    a word of prose               key/value pairs of the payload    *)
(*   "n"    a JSON value that is no object and holds no brace (a number)    *)
(*   "q"    a double quote: from one quote to the next is a JSON string,    *)
(*          whatever tokens stand in between; inside an object it is a      *)
(*          key/value pair with that string as its value                    *)
(* and the payload: the dict the members "k" stand for.                     *)

Fence == "fence"

Tokens == {Fence, "json", "{", "}", "k", "w", "n", "q"}

\* s[p..r] is a JSON string: a quote, tokens that are no quote, a quote
IsString(s, p, r) ==
    /\ 1 <= p
    /\ p < r
    /\ r <= Len(s)
    /\ s[p] = "q"
    /\ s[r] = "q"
    /\ \A l \in (p + 1)..(r - 1) : s[l] # "q"

RECURSIVE IsMembers(_)
\* the inside of a JSON object: members "k", string members and nested objects
IsMembers(m) ==
    \/ m = <<>>
    \/ /\ m # <<>>
       /\ m[1] = "k"
       /\ IsMembers(Tail(m))
    \/ \E j \in 2..Len(m) :
            /\ IsString(m, 1, j)
            /\ IsMembers(SubSeq(m, j + 1, Len(m)))
    \/ /\ m # <<>>
       /\ m[1] = "{"
       /\ \E j \in 2..Len(m) :
            /\ m[j] = "}"
            /\ IsMembers(SubSeq(m, 2, j - 1))
            /\ IsMembers(SubSeq(m, j + 1, Len(m)))

IsObject(s) ==
    /\ Len(s) >= 2
    /\ s[1] = "{"
    /\ s[Len(s)] = "}"
    /\ IsMembers(SubSeq(s, 2, Len(s) - 1))

\* json.loads(s): raises (ok = FALSE), or returns a dict, or returns another value.
\* The dict holds the payload's pairs when the object has members of its own.
json_loads(s, payload) ==
    IF IsObject(s)
    THEN [ok |-> TRUE, isdict |-> TRUE,
          dict |-> IF \E j \in 2..(Len(s) - 1) :
                        /\ s[j] = "k"
                        /\ IsMembers(SubSeq(s, 2, j - 1))
                   THEN payload ELSE EmptyDict]
    ELSE IF s = <<"n">> \/ IsString(s, 1, Len(s))
    THEN [ok |-> TRUE, isdict |-> FALSE, dict |-> EmptyDict]
    ELSE [ok |-> FALSE, isdict |-> FALSE, dict |-> EmptyDict]

\* text.find(t), 1-based, 0 when absent
Find(text, t) ==
    IF \E j \in 1..Len(text) : text[j] = t
    THEN CHOOSE j \in 1..Len(text) : text[j] = t /\ \A l \in 1..(j - 1) : text[l] # t
    ELSE 0

\* text.rfind(t), 1-based, 0 when absent
RFind(text, t) ==
    IF \E j \in 1..Len(text) : text[j] = t
    THEN CHOOSE j \in 1..Len(text) : text[j] = t /\ \A l \in (j + 1)..Len(text) : text[l] # t
    ELSE 0

\* The matches <<p, q, r>> of the pattern ```(?:json)?\s*(\{.*?\})\s*``` : the
\* opening fence at p, the group from q to r.
FenceMatches(text) ==
    {m \in (1..Len(text)) \X (1..Len(text)) \X (1..Len(text)) :
        /\ text[m[1]] = Fence
        /\ \/ m[2] = m[1] + 1
           \/ m[2] = m[1] + 2 /\ text[m[1] + 1] = "json"
        /\ text[m[2]] = "{"
        /\ m[3] > m[2]
        /\ text[m[3]] = "}"
        /\ m[3] < Len(text)
        /\ text[m[3] + 1] = Fence}

\* re.search: the leftmost match, and for it the shortest group (.*? is lazy)
FenceSearch(text) ==
    LET ms == FenceMatches(text)
    IN  CHOOSE m \in ms : \A o \in ms : m[1] < o[1] \/ (m[1] = o[1] /\ m[3] <= o[3])

\* What extract_json_robust hands back: a dict (isdict), or the non-dict value
\* json.loads returned in case 3.  Any exception gives {}.
extract_json_robust(text, payload) ==
    LET Result(r) == IF r.ok THEN [isdict |-> r.isdict, dict |-> r.dict]
                     ELSE [isdict |-> TRUE, dict |-> EmptyDict]
        start == Find(text, "{")
        end   == RFind(text, "}")
    IN  IF Fence \in Range(text) /\ FenceMatches(text) # {}
        THEN LET m == FenceSearch(text)
             IN  Result(json_loads(SubSeq(text, m[2], m[3]), payload))
        ELSE IF start # 0
        THEN Result(json_loads(SubSeq(text, start, end), payload))
        ELSE Result(json_loads(text, payload))

-----------------------------------------------------------------------------
(* The nodes of the graph, src/src/graph.py, as functions of the state dict *)

\* The order in which a set of list elements is printed.  (CPython prints a set
\* of strings in an order that changes from process to process; one order is
\* fixed here, and nothing below depends on which.)
ElemOrder == <<"A", "B", "C", NonStr>>

\* str(S) for a non-empty set S of list elements
SetRepr(S) ==
    "{" \o JoinWith(", ", [j \in 1..Len(SelectSeq(ElemOrder, LAMBDA e : e \in S)) |->
                              ElemRepr(SelectSeq(ElemOrder, LAMBDA e : e \in S)[j])]) \o "}"

\* repr(s) of a string: single quotes, double quotes when s holds a single quote
\* (of the validator's messages, the one that prints a set with a string in it)
StrRepr(s) ==
    IF s \in {"No tags selected", "Evidence too short", "Invalid tags: {7}"}
    THEN "'" \o s \o "'"
    ELSE "\"" \o s \o "\""

\* str(l) of a list of strings
ListRepr(l) == "[" \o JoinWith(", ", [j \in 1..Len(l) |-> StrRepr(l[j])]) \o "]"

\* The except branch of tagger_node (lines 78-80): evidence is not assigned.
tagger_except(st, msg) ==
    SetItem(SetItem(st, "reasoning", "LLM Error: " \o msg), "proposed_tags", <<>>)

\* tagger_node below the API key check (lines 72-82).  llm is what llm.invoke
\* does: it raises with a message, or returns a reply (text, payload).
tagger_node(st, llm) ==
    IF llm.raises
    THEN tagger_except(st, llm.msg)
    ELSE LET data == extract_json_robust(llm.text, llm.payload)
         IN  IF ~data.isdict
             THEN \* data.get raises AttributeError before anything is assigned
                  tagger_except(st, "'int' object has no attribute 'get'")
             ELSE SetItem(SetItem(SetItem(st,
                      "proposed_tags", Get(data.dict, "tags", <<>>)),
                      "evidence", Get(data.dict, "evidence", "")),
                      "reasoning", Get(data.dict, "reasoning", ""))

\* set(state['proposed_tags']) or len(state['evidence']) raises TypeError
validator_raises(st) ==
    \/ Unhashable \in Range(st["proposed_tags"])
    \/ st["evidence"] = None

\* validator_issues without Check 1, the hallucination check
validator_issues_unchecked(st) ==
    (IF Range(st["proposed_tags"]) = {} THEN <<"No tags selected">> ELSE <<>>)
    \o (IF Len(st["evidence"]) < MIN_EVIDENCE_CHARS
        THEN <<"Evidence too short">> ELSE <<>>)

\* validator_issues as an if / elif chain: only the first violated check is kept
validator_issues_first(st) ==
    LET allowed  == DOMAIN st["taxonomy"]
        proposed == Range(st["proposed_tags"])
    IN  IF ~(proposed \subseteq allowed)
        THEN <<"Invalid tags: " \o SetRepr(proposed \ allowed)>>
        ELSE IF proposed = {} THEN <<"No tags selected">>
        ELSE IF Len(st["evidence"]) < MIN_EVIDENCE_CHARS
        THEN <<"Evidence too short">> ELSE <<>>

validator_issues(st) ==
    LET allowed  == DOMAIN st["taxonomy"]
        proposed == Range(st["proposed_tags"])
    IN  (IF ~(proposed \subseteq allowed)
         THEN <<"Invalid tags: " \o SetRepr(proposed \ allowed)>> ELSE <<>>)
        \o (IF proposed = {} THEN <<"No tags selected">> ELSE <<>>)
        \o (IF Len(st["evidence"]) < MIN_EVIDENCE_CHARS
            THEN <<"Evidence too short">> ELSE <<>>)

\* validator_node that adds the issues found to those of the attempt before
validator_node_adding(st) ==
    LET issues == st["validation_issues"] \o validator_issues(st)
    IN  SetItem(SetItem(st, "validation_issues", issues),
                "validation_passed", Len(issues) = 0)

validator_node(st) ==
    LET issues == validator_issues(st)
    IN  SetItem(SetItem(st, "validation_issues", issues),
                "validation_passed", Len(issues) = 0)

\* retry_node that also discards the failed validation's issues
retry_node_clearing(st) ==
    [st EXCEPT !["retag_count"] = @ + 1, !["validation_issues"] = <<>>]

retry_node(st) == [st EXCEPT !["retag_count"] = @ + 1]

\* len(state['evidence']) or len(state['reasoning']) raises TypeError
scorer_raises(st) ==
    \/ st["evidence"] = None
    \/ st["reasoning"] = None

\* scorer_score with >= for > in the evidence test
scorer_score_inclusive(st) ==
    (IF st["validation_passed"] THEN 50 ELSE 0)
    + (IF Len(st["evidence"]) >= 30 THEN 30 ELSE 0)
    + (IF Len(st["reasoning"]) > 15 THEN 20 ELSE 0)

\* scorer_score with the weights of validation and evidence exchanged
scorer_score_swapped(st) ==
    (IF st["validation_passed"] THEN 30 ELSE 0)
    + (IF Len(st["evidence"]) > 30 THEN 50 ELSE 0)
    + (IF Len(st["reasoning"]) > 15 THEN 20 ELSE 0)

\* score of scorer_node (lines 137-142), in hundredths
\* scorer_score with the weights of validation and evidence exchanged
scorer_score_exchanged(st) ==
    (IF st["validation_passed"] THEN 30 ELSE 0)
    + (IF Len(st["evidence"]) > 30 THEN 50 ELSE 0)
    + (IF Len(st["reasoning"]) > 15 THEN 20 ELSE 0)

scorer_score(st) ==
    (IF st["validation_passed"] THEN 50 ELSE 0)
    + (IF Len(st["evidence"]) > 30 THEN 30 ELSE 0)
    + (IF Len(st["reasoning"]) > 15 THEN 20 ELSE 0)

\* the scorer with a HOLD rationale that gives the score instead of the issues
scorer_node_unlisted(st) ==
    LET score == scorer_score(st)
        st1   == SetItem(st, "confidence_score", score)
    IN  IF score >= env.min_confidence
        THEN SetItem(SetItem(st1, "decision", "PUBLISH"), "decision_rationale",
                     "Score " \o FloatRepr(score) \o " >= "
                        \o FloatRepr(env.min_confidence))
        ELSE SetItem(SetItem(st1, "decision", "HOLD"), "decision_rationale",
                     "Score " \o FloatRepr(score) \o " < "
                        \o FloatRepr(env.min_confidence))

\* the scorer with a strict comparison
scorer_node_strict(st) ==
    LET score == scorer_score(st)
        st1   == SetItem(st, "confidence_score", score)
    IN  IF score > env.min_confidence
        THEN SetItem(SetItem(st1, "decision", "PUBLISH"), "decision_rationale",
                     "Score " \o FloatRepr(score) \o " >= "
                        \o FloatRepr(env.min_confidence))
        ELSE SetItem(SetItem(st1, "decision", "HOLD"), "decision_rationale",
                     "Issues: " \o ListRepr(st["validation_issues"]))

\* Config.MIN_CONFIDENCE_TO_PUBLISH is read when the node runs: env.min_confidence.
scorer_node(st) ==
    LET score == scorer_score(st)
        st1   == SetItem(st, "confidence_score", score)
    IN  IF score >= env.min_confidence
        THEN SetItem(SetItem(st1, "decision", "PUBLISH"), "decision_rationale",
                     "Score " \o FloatRepr(score) \o " >= "
                        \o FloatRepr(env.min_confidence))
        ELSE SetItem(SetItem(st1, "decision", "HOLD"), "decision_rationale",
                     "Issues: " \o ListRepr(st["validation_issues"]))

\* should_retry with <= for <
should_retry_inclusive(st) ==
    IF ~st["validation_passed"] /\ st["retag_count"] <= MAX_RETRY_ATTEMPTS
    THEN "retry" ELSE "score"

\* should_retry that looks at the counter alone
should_retry_regardless(st) ==
    IF st["retag_count"] < MAX_RETRY_ATTEMPTS
    THEN "retry" ELSE "score"

should_retry(st) ==
    IF ~st["validation_passed"] /\ st["retag_count"] < MAX_RETRY_ATTEMPTS
    THEN "retry" ELSE "score"

\* conditional_edges with the two targets exchanged
conditional_edges_swapped == [retry |-> "scorer", score |-> "retry"]

\* the mapping of add_conditional_edges (build_graph, lines 186-190)
conditional_edges == [retry |-> "retry", score |-> "scorer"]

-----------------------------------------------------------------------------
(* The inputs: the taxonomy file, the rows of the CSV, the replies of the   *)
(* model service.                                                           *)

Taxonomy == [A |-> [definition |-> "def A"], B |-> [definition |-> "def B"]]

\* The taxonomy file holds the dict itself, or the dict under a "taxonomy" key.
TaxonomyFiles == {Taxonomy, [taxonomy |-> Taxonomy]}

\* row i of df (it has a description column and no proposalId column)
Row(n) == [description |-> "proposal " \o ToString(n)]

TagLists == {<<>>, <<"A">>, <<"A", "C">>}

Evidences ==
    {"short",                               \* 5 characters
     "ten chars!",                          \* 10
     "an evidence of thirty-one chars"}     \* 31

Reasonings ==
    {"ok",                                  \* 2
     "sixteen chars..."}                    \* 16

\* the dict of a JSON object with the three keys
Payload(t, e, r) == [tags |-> t, evidence |-> e, reasoning |-> r]

\* the dicts the model's JSON object can be: well-typed values; a tag that is a
\* number, a tag that is a list, a null evidence, a null reasoning; the tags alone
Payloads ==
    {Payload(t, e, r) : t \in TagLists, e \in Evidences, r \in Reasonings}
    \cup {Payload(<<NonStr>>, "an evidence of thirty-one chars", "sixteen chars..."),
          Payload(<<Unhashable>>, "an evidence of thirty-one chars", "sixteen chars..."),
          Payload(<<"A">>, None, "sixteen chars..."),
          Payload(<<"A">>, "an evidence of thirty-one chars", None),
          Payload(<<"A", "C">>, "an evidence of thirty-one chars", None),
          [tags |-> <<"A">>]}

\* replies: the object alone, fenced, inside prose, a fence that never closes,
\* an empty object, prose without braces, a bare number
Texts ==
    {<<"{", "k", "}">>,
     <<"w", Fence, "json", "{", "k", "}", Fence>>,
     <<"w", "{", "k", "}", "w">>,
     <<Fence, "json", "{", "k">>,
     <<"{", "}">>,
     <<"w", "w">>,
     <<"n">>}

\* str(e) of the exception llm.invoke raises
ErrorMessages == {"", "Connection error."}

\* what llm.invoke does: it raises, or returns a reply (every payload as the
\* object alone, and one payload in every form of reply)
LLMOutcomes ==
    {[raises |-> TRUE, msg |-> m, text |-> <<>>, payload |-> EmptyDict] :
        m \in ErrorMessages}
    \cup {[raises |-> FALSE, msg |-> "", text |-> <<"{", "k", "}">>, payload |-> p] :
        p \in Payloads}
    \cup {[raises |-> FALSE, msg |-> "", text |-> t,
           payload |-> Payload(<<"A">>, "an evidence of thirty-one chars",
                               "sixteen chars...")] : t \in Texts}

-----------------------------------------------------------------------------
(* main, src/src/main.py, and the graph build_graph compiles *)

NoRun == [calls |-> 0, failed |-> 0, passed |-> 0, scored |-> 0, llm_error |-> FALSE]

Init ==
    /\ env \in {e \in [csv : BOOLEAN, taxonomy : BOOLEAN, api_key : BOOLEAN,
                       nrows : 0..MaxRows,
                       min_confidence : {MIN_CONFIDENCE_TO_PUBLISH}] :
                    ~e.csv => e.nrows = 0}
    /\ pc = "load"
    /\ i = 0
    /\ tax_dict = EmptyDict
    /\ node = "none"
    /\ state = EmptyDict
    /\ final_results = <<>>
    /\ output = [written |-> FALSE, rows |-> <<>>]
    /\ run = NoRun
    /\ hist = <<>>

\* STEP 1 (lines 12-40): a missing file prints the error and returns;
\* tax_raw is what json.load reads from the taxonomy file
LoadInputs ==
    /\ pc = "load"
    /\ IF ~env.csv \/ ~env.taxonomy
       THEN /\ pc' = "exit"
            /\ UNCHANGED tax_dict
       ELSE /\ pc' = "loop"
            /\ \E tax_raw \in TaxonomyFiles :
                 tax_dict' = Get(tax_raw, "taxonomy", tax_raw)
    /\ UNCHANGED <<env, i, node, state, final_results, output, run, hist>>

\* initial_state whose retry counter goes on from the records collected so far
initial_state_carrying(n) ==
    [proposal_id |-> ToString(n),
     description |-> Row(n).description,
     taxonomy |-> tax_dict,
     retag_count |-> Len(final_results),
     proposed_tags |-> <<>>,
     evidence |-> "",
     validation_passed |-> FALSE,
     validation_issues |-> <<>>]

\* initial_state with a decision filled in
initial_state_decided(n) ==
    [proposal_id |-> ToString(n),
     description |-> Row(n).description,
     taxonomy |-> tax_dict,
     retag_count |-> 0,
     proposed_tags |-> <<>>,
     evidence |-> "",
     validation_passed |-> FALSE,
     validation_issues |-> <<>>,
     decision |-> "HOLD"]

\* initial_state (lines 52-58)
initial_state(n) ==
    [proposal_id |-> ToString(n),
     description |-> Row(n).description,
     taxonomy |-> tax_dict,
     retag_count |-> 0,
     proposed_tags |-> <<>>,
     evidence |-> "",
     validation_passed |-> FALSE,
     validation_issues |-> <<>>]

\* the for loop takes the next row and app.invoke enters the graph at its entry point
NextRow ==
    /\ pc = "loop"
    /\ i < env.nrows
    /\ pc' = "invoke"
    /\ state' = initial_state(i)
    /\ node' = "tagger"
    /\ run' = NoRun
    /\ UNCHANGED <<env, i, tax_dict, final_results, output, hist>>

\* Raise without the handler of line 80: the exception ends main
Raise_uncaught(r) ==
    /\ pc' = "exit"
    /\ i' = i
    /\ node' = "none"
    /\ state' = EmptyDict
    /\ run' = NoRun
    /\ hist' = Append(hist, [id |-> ToString(i), outcome |-> "raised",
                             llm_error |-> r.llm_error])
    /\ UNCHANGED <<env, tax_dict, final_results, output>>

\* an exception leaves app.invoke (or the lines after it) and is caught at
\* line 80: the row's result is not appended and the loop goes on.  r is the
\* history of the run up to the exception.
Raise(r) ==
    /\ pc' = "loop"
    /\ i' = i + 1
    /\ node' = "none"
    /\ state' = EmptyDict
    /\ run' = NoRun
    /\ hist' = Append(hist, [id |-> ToString(i), outcome |-> "raised",
                             llm_error |-> r.llm_error])
    /\ UNCHANGED <<env, tax_dict, final_results, output>>

\* the tagger node (the API key check of lines 45-47, then the call), then the
\* edge tagger -> validator
Tagger(outcomes) ==
    /\ pc = "invoke"
    /\ node = "tagger"
    /\ IF ~env.api_key
       THEN Raise([run EXCEPT !.calls = @ + 1])
       ELSE \E llm \in outcomes :
              /\ state' = tagger_node(state, llm)
              /\ run' = [run EXCEPT !.calls = @ + 1,
                                    !.llm_error = llm.raises
                                        \/ ~extract_json_robust(llm.text, llm.payload).isdict]
              /\ node' = "validator"
              /\ UNCHANGED <<env, pc, i, tax_dict, final_results, output, hist>>

StepTagger == Tagger(LLMOutcomes)

\* the validator node, then the conditional edge should_retry
StepValidator ==
    /\ pc = "invoke"
    /\ node = "validator"
    /\ IF validator_raises(state)
       THEN Raise(run)
       ELSE /\ state' = validator_node(state)
            /\ node' = conditional_edges[should_retry(state')]
            /\ run' = IF state'["validation_passed"]
                      THEN [run EXCEPT !.passed = @ + 1]
                      ELSE [run EXCEPT !.failed = @ + 1]
            /\ UNCHANGED <<env, pc, i, tax_dict, final_results, output, hist>>

\* the retry node, then the edge retry -> tagger
StepRetry ==
    /\ pc = "invoke"
    /\ node = "retry"
    /\ state' = retry_node(state)
    /\ node' = "tagger"
    /\ UNCHANGED <<env, pc, i, tax_dict, final_results, output, run, hist>>

\* the scorer node, then the edge scorer -> END
StepScorer ==
    /\ pc = "invoke"
    /\ node = "scorer"
    /\ IF scorer_raises(state)
       THEN Raise(run)
       ELSE /\ state' = scorer_node(state)
            /\ node' = "END"
            /\ run' = [run EXCEPT !.scored = @ + 1]
            /\ UNCHANGED <<env, pc, i, tax_dict, final_results, output, hist>>

\* the record main appends for the final state (lines 68-76)
result_record(final) ==
    [id |-> final["proposal_id"],
     description |-> Row(i).description,
     tags |-> JoinWith(", ", final["proposed_tags"]),
     decision |-> final["decision"],
     confidence |-> final["confidence_score"],
     evidence |-> final["evidence"],
     rationale |-> final["decision_rationale"]]

\* Collect that writes the records to the output file after every row
Collect_streaming ==
    /\ pc = "invoke"
    /\ node = "END"
    /\ IF NonStr \in Range(state["proposed_tags"])
       THEN Raise(run)
       ELSE /\ final_results' = Append(final_results, result_record(state))
            /\ output' = [written |-> TRUE, rows |-> final_results']
            /\ pc' = "loop"
            /\ i' = i + 1
            /\ node' = "none"
            /\ state' = EmptyDict
            /\ run' = NoRun
            /\ hist' = Append(hist, [id |-> ToString(i), outcome |-> "END",
                                     llm_error |-> run.llm_error])
            /\ UNCHANGED <<env, tax_dict>>

\* app.invoke has returned: lines 64-78.  ", ".join raises TypeError on a tag
\* that is no string.
Collect ==
    /\ pc = "invoke"
    /\ node = "END"
    /\ IF NonStr \in Range(state["proposed_tags"])
       THEN Raise(run)
       ELSE /\ final_results' = Append(final_results, result_record(state))
            /\ pc' = "loop"
            /\ i' = i + 1
            /\ node' = "none"
            /\ state' = EmptyDict
            /\ run' = NoRun
            /\ hist' = Append(hist, [id |-> ToString(i), outcome |-> "END",
                                     llm_error |-> run.llm_error])
            /\ UNCHANGED <<env, tax_dict, output>>

\* STEP 4 (lines 84-86): the loop is over, the results are written
Export ==
    /\ pc = "loop"
    /\ i >= env.nrows
    /\ output' = [written |-> TRUE, rows |-> final_results]
    /\ pc' = "exit"
    /\ UNCHANGED <<env, i, tax_dict, node, state, final_results, run, hist>>

Next ==
    \/ LoadInputs
    \/ NextRow
    \/ StepTagger
    \/ StepValidator
    \/ StepRetry
    \/ StepScorer
    \/ Collect
    \/ Export

Spec == Init /\ [][Next]_vars

-----------------------------------------------------------------------------
(* The validator and the scorer on their own: the last attempt of a run     *)
(* (retag_count = MAX_RETRY_ATTEMPTS, so the validator is followed by the   *)
(* scorer), with the tagger's output drawn from strings on both sides of    *)
(* every length threshold.                                                  *)

BoundaryEvidences ==
    {"",
     "short",                               \* 5 characters
     "nine char",                           \* 9
     "ten chars!",                          \* 10
     "thirty characters of evidence.",      \* 30
     "an evidence of thirty-one chars"}     \* 31

BoundaryReasonings ==
    {"",
     "ok",                                  \* 2
     "fifteen chars..",                     \* 15
     "sixteen chars..."}                    \* 16

ScoreStart(threshold) ==
    /\ env = [csv |-> TRUE, taxonomy |-> TRUE, api_key |-> TRUE, nrows |-> 1,
              min_confidence |-> threshold]
    /\ pc = "invoke"
    /\ i = 0
    /\ tax_dict = Taxonomy
    /\ node = "validator"
    /\ \E t \in TagLists, e \in BoundaryEvidences, r \in BoundaryReasonings :
         state = [proposal_id |-> "0",
                  description |-> Row(0).description,
                  taxonomy |-> Taxonomy,
                  retag_count |-> MAX_RETRY_ATTEMPTS,
                  proposed_tags |-> t,
                  evidence |-> e,
                  reasoning |-> r,
                  validation_passed |-> FALSE,
                  validation_issues |-> <<"No tags selected">>]
    /\ final_results = <<>>
    /\ output = [written |-> FALSE, rows |-> <<>>]
    /\ run = [calls |-> MAX_RETRY_ATTEMPTS + 1, failed |-> MAX_RETRY_ATTEMPTS,
              passed |-> 0, scored |-> 0, llm_error |-> FALSE]
    /\ hist = <<>>

NextScore ==
    \/ StepValidator
    \/ StepScorer

InitScore == ScoreStart(MIN_CONFIDENCE_TO_PUBLISH)

SpecScore == InitScore /\ [][NextScore]_vars

(* The same, with Config.MIN_CONFIDENCE_TO_PUBLISH set to other values (in  *)
(* hundredths): every score the scorer can form, values between two of      *)
(* them, and values below and above all of them.                            *)
Thresholds == {0, 10, 20, 30, 50, 65, 70, 80, 100, 105}

InitThreshold == \E threshold \in Thresholds : ScoreStart(threshold)

SpecThreshold == InitThreshold /\ [][NextScore]_vars

(* The tagger's first attempt on a reply that env holds, so that what the   *)
(* tagger stored can be compared with the reply: every sequence of at most  *)
(* MaxTextLen tokens, and longer replies put together from a lead-in, an    *)
(* object and a tail.                                                       *)
ShortTexts == UNION {[1..n -> Tokens] : n \in 0..MaxTextLen}

LeadIns == {<<>>, <<"w">>, <<Fence>>, <<Fence, "json">>, <<"w", Fence, "json">>}

Objects ==
    {<<"{", "k", "}">>,
     <<"{", "}">>,
     <<"{", "k", "{", "k", "}", "}">>,
     <<"{", "w", "}">>,
     <<"{", "k", "q", "w", "q", "}">>,
     <<"{", "k", "q", "}", Fence, "q", "}">>,
     <<"{", "k", "q", "{", "}", Fence, "q", "}">>}

Tails ==
    {<<>>, <<"w">>, <<Fence>>, <<Fence, "w">>, <<"w", Fence>>,
     <<Fence, "w", "{", "k", "}">>}

ExtractTexts ==
    ShortTexts \cup {l \o o \o t : l \in LeadIns, o \in Objects, t \in Tails}

ExtractReplies ==
    {[raises |-> FALSE, msg |-> "", text |-> t,
      payload |-> Payload(<<"A">>, "an evidence of thirty-one chars",
                          "sixteen chars...")] : t \in ExtractTexts}

InitExtract ==
    /\ env \in {[csv |-> TRUE, taxonomy |-> TRUE, api_key |-> TRUE, nrows |-> 1,
                  min_confidence |-> MIN_CONFIDENCE_TO_PUBLISH, reply |-> r] :
                    r \in ExtractReplies}
    /\ pc = "invoke"
    /\ i = 0
    /\ tax_dict = Taxonomy
    /\ node = "tagger"
    /\ state = initial_state(0)
    /\ final_results = <<>>
    /\ output = [written |-> FALSE, rows |-> <<>>]
    /\ run = NoRun
    /\ hist = <<>>

\* the tagger node when llm.invoke returns env.reply
StepReply == Tagger({env.reply})

NextExtract == StepReply

SpecExtract == InitExtract /\ [][NextExtract]_vars

(* The validator on every combination of a taxonomy, a tag list and an      *)
(* evidence.  Combinations with more than one tag outside the taxonomy are  *)
(* left out: the order in which Python prints a set of several strings is   *)
(* not fixed.                                                               *)
Taxonomies ==
    {EmptyDict,
     [A |-> [definition |-> "def A"]],
     Taxonomy}

ValidatorTagLists ==
    {<<>>, <<"A">>, <<"B">>, <<"C">>, <<"A", "A">>, <<"A", "B">>, <<"B", "A">>,
     <<"A", "C">>, <<"C", "A", "B">>, <<NonStr>>}

InitValidate ==
    /\ env = [csv |-> TRUE, taxonomy |-> TRUE, api_key |-> TRUE, nrows |-> 1,
              min_confidence |-> MIN_CONFIDENCE_TO_PUBLISH]
    /\ pc = "invoke"
    /\ i = 0
    /\ tax_dict \in Taxonomies
    /\ node = "validator"
    /\ \E t \in ValidatorTagLists, e \in BoundaryEvidences :
         /\ Cardinality(Range(t) \ DOMAIN tax_dict) <= 1
         /\ state = [proposal_id |-> "0",
                     description |-> Row(0).description,
                     taxonomy |-> tax_dict,
                     retag_count |-> MAX_RETRY_ATTEMPTS,
                     proposed_tags |-> t,
                     evidence |-> e,
                     reasoning |-> "ok",
                     validation_passed |-> FALSE,
                     validation_issues |-> <<"No tags selected">>]
    /\ final_results = <<>>
    /\ output = [written |-> FALSE, rows |-> <<>>]
    /\ run = [calls |-> MAX_RETRY_ATTEMPTS + 1, failed |-> MAX_RETRY_ATTEMPTS,
              passed |-> 0, scored |-> 0, llm_error |-> FALSE]
    /\ hist = <<>>

SpecValidate == InitValidate /\ [][NextScore]_vars

TypeOK ==
    /\ pc \in {"load", "loop", "invoke", "exit"}
    /\ node \in {"none", "tagger", "validator", "retry", "scorer", "END"}
    /\ i \in 0..env.nrows

-----------------------------------------------------------------------------
(* Claims.  The states of the workflow are the values of node: TAGGING is   *)
(* "tagger", VALIDATING "validator", RETRYING "retry", SCORING "scorer",    *)
(* DONE "END"; "none" when no run is in progress.                           *)

InRun == pc = "invoke"

Done == InRun /\ node = "END"

\* C1: in a run whose validations all returned passed = false, the tagger has
\* run exactly MAX_RETRY_ATTEMPTS + 1 times when the scorer is reached, and the
\* run then reaches DONE with decision HOLD; the tagger never runs more than
\* MAX_RETRY_ATTEMPTS + 1 times in a run.
C1_AlwaysFailingReachesHold ==
    /\ [](run.calls <= MAX_RETRY_ATTEMPTS + 1)
    /\ [][(InRun /\ node = "scorer" /\ run.passed = 0)
            => /\ run.calls = MAX_RETRY_ATTEMPTS + 1
               /\ node' = "END"
               /\ state'["decision"] = "HOLD"]_vars

\* C2: in every DONE state with decision PUBLISH every proposed tag is a key of
\* the input taxonomy.
C2_NoHallucinatedPublish ==
    (Done /\ state["decision"] = "PUBLISH")
        => \A j \in 1..Len(state["proposed_tags"]) :
              state["proposed_tags"][j] \in DOMAIN Taxonomy

\* a PUBLISH reached after an attempt that failed validation
C2_Witness ==
    /\ Done
    /\ state["decision"] = "PUBLISH"
    /\ run.failed > 0
    /\ state["proposed_tags"] # <<>>

\* C3: a run starts in TAGGING and every step of it takes one of the edges
\* TAGGING -> VALIDATING, VALIDATING -> RETRYING (exactly when validation failed
\* and retag_count < MAX_RETRY_ATTEMPTS), VALIDATING -> SCORING (otherwise),
\* RETRYING -> TAGGING, SCORING -> DONE; nothing leaves DONE but the end of the
\* run.  (A step that raises ends the run: node becomes "none".)
C3_Transitions ==
    [][/\ (~InRun /\ InRun') => node' = "tagger"
       /\ (InRun /\ InRun') =>
            \/ node = "tagger" /\ node' = "validator"
            \/ /\ node = "validator"
               /\ node' = "retry"
               /\ ~state'["validation_passed"]
               /\ state'["retag_count"] < MAX_RETRY_ATTEMPTS
            \/ /\ node = "validator"
               /\ node' = "scorer"
               /\ \/ state'["validation_passed"]
                  \/ state'["retag_count"] >= MAX_RETRY_ATTEMPTS
            \/ node = "retry" /\ node' = "tagger"
            \/ node = "scorer" /\ node' = "END"]_vars

\* the scorer reached with validation failed and the retries used up, after the
\* loop-back edge was taken
C3_Witness ==
    /\ InRun
    /\ node = "scorer"
    /\ ~state["validation_passed"]
    /\ state["retag_count"] = MAX_RETRY_ATTEMPTS

\* C4: after a tagger attempt that ended in a service or transport error the
\* state is the empty classification: proposed_tags = [], evidence = "" and
\* reasoning an error note, whatever earlier attempts wrote.
C4_ErrorGivesEmptyClassification ==
    (InRun /\ node = "validator" /\ run.llm_error)
        => /\ state["proposed_tags"] = <<>>
           /\ state["evidence"] = ""
           /\ \E m \in ErrorMessages \cup {"'int' object has no attribute 'get'"} :
                 state["reasoning"] = "LLM Error: " \o m

\* C5: a proposal whose last tagger attempt ended in a classification error, or
\* whose run raised, is never emitted with PUBLISH: it has no record in
\* final_results (nor in the output), or its record's decision is HOLD; and a
\* run at DONE whose last attempt was an error has decision HOLD.
C5_FailedNeverPublished ==
    /\ (Done /\ run.llm_error) => state["decision"] = "HOLD"
    /\ \A k \in 1..Len(hist) :
         \A rows \in {final_results, output.rows} :
           \A j \in 1..Len(rows) :
              rows[j].id = hist[k].id =>
                 /\ hist[k].outcome # "raised"
                 /\ hist[k].llm_error => rows[j].decision = "HOLD"

\* a record emitted for a proposal whose last attempt was an error that kept the
\* evidence of an earlier attempt (score 0.5)
C5_Witness ==
    \E k \in 1..Len(hist) : \E j \in 1..Len(output.rows) :
        /\ output.rows[j].id = hist[k].id
        /\ hist[k].llm_error
        /\ output.rows[j].confidence = 50
        /\ \E l \in 1..Len(hist) : hist[l].outcome = "raised"

\* C6: when the API key, the input CSV or the taxonomy file is missing, no
\* proposal's workflow is entered: the tagger node never executes.
C6_ConfigErrorAbortsBeforeAnyProposal ==
    [][(~env.api_key \/ ~env.csv \/ ~env.taxonomy) => ~StepTagger]_vars

FinalFields == {"confidence_score", "decision", "decision_rationale"}

\* C7: an exception in one proposal's run is caught by the loop: the proposal
\* gets no record, every other processed proposal that reached DONE has its
\* record, in order; the loop always goes on to the next row, and main ends only
\* after the last row, with the records written.
C7_FailureIsolated ==
    /\ Len(hist) = i
    /\ \A k \in 1..Len(hist) : hist[k].id = ToString(k - 1)
    /\ LET ended == SelectSeq(hist, LAMBDA h : h.outcome = "END")
       IN  /\ Len(final_results) = Len(ended)
           /\ \A j \in 1..Len(ended) : final_results[j].id = ended[j].id
    /\ (pc = "exit" /\ env.csv /\ env.taxonomy)
          => /\ i = env.nrows
             /\ output = [written |-> TRUE, rows |-> final_results]
    /\ pc # "exit" => ENABLED Next

\* the batch is over: a proposal raised and a later one has its record written
C7_Witness ==
    /\ pc = "exit"
    /\ \E k \in 1..Len(hist) : \E l \in (k + 1)..Len(hist) :
          /\ hist[k].outcome = "raised"
          /\ hist[l].outcome = "END"
          /\ \E j \in 1..Len(output.rows) : output.rows[j].id = hist[l].id

\* C8: confidence_score, decision and decision_rationale are unset until the
\* scorer has run, the scorer has run exactly once when the run is at DONE (and
\* never more than once), and once set the three fields do not change: no step
\* of the run changes them and the record main appends carries them as set.
C8_FinalFieldsSetOnce ==
    /\ [](InRun => IF run.scored = 0
                   THEN FinalFields \cap DOMAIN state = {}
                   ELSE FinalFields \subseteq DOMAIN state)
    /\ [](run.scored <= 1)
    /\ [](Done => run.scored = 1)
    /\ [][(InRun /\ InRun' /\ run.scored > 0)
            => \A f \in FinalFields : state'[f] = state[f]]_vars
    /\ [][(Done /\ final_results' # final_results)
            => LET rec == final_results'[Len(final_results')]
               IN  /\ rec.confidence = state["confidence_score"]
                   /\ rec.decision = state["decision"]
                   /\ rec.rationale = state["decision_rationale"]]_vars

\* a run at DONE that went through both retries
C8_Witness ==
    /\ Done
    /\ run.calls = MAX_RETRY_ATTEMPTS + 1
    /\ FinalFields \subseteq DOMAIN state

\* C9: retag_count is 0 when a run starts, never decreases during the run, and
\* is at most MAX_RETRY_ATTEMPTS in every state of the run.
C9_RetagCountBounded ==
    /\ [](InRun => state["retag_count"] \in 0..MAX_RETRY_ATTEMPTS)
    /\ [][(~InRun /\ InRun') => state'["retag_count"] = 0]_vars
    /\ [][(InRun /\ InRun') => state'["retag_count"] >= state["retag_count"]]_vars

\* the tagger re-entered with the counter at its maximum
C9_Witness ==
    /\ InRun
    /\ node = "tagger"
    /\ state["retag_count"] = MAX_RETRY_ATTEMPTS

\* C10: the confidence score (in hundredths) is decided by the three booleans
\* validation_passed, len(evidence) > 30 and len(reasoning) > 15 alone: it is
\* the sum of 50, 30 and 20 for those that are true, hence one of 0, 20, 30, 50,
\* 70, 80, 100 (so equal inputs get equal scores).
C10_ScoreOfThreeBooleans ==
    Done =>
        LET v == state["validation_passed"]
            e == Len(state["evidence"]) > 30
            r == Len(state["reasoning"]) > 15
        IN  /\ state["confidence_score"] \in {0, 20, 30, 50, 70, 80, 100}
            /\ state["confidence_score"] =
                 CASE ~v /\ ~e /\ ~r -> 0
                   [] ~v /\ ~e /\  r -> 20
                   [] ~v /\  e /\ ~r -> 30
                   [] ~v /\  e /\  r -> 50
                   []  v /\ ~e /\ ~r -> 50
                   []  v /\ ~e /\  r -> 70
                   []  v /\  e /\ ~r -> 80
                   []  v /\  e /\  r -> 100

\* validation passed, the evidence is exactly 30 characters long (no evidence
\* weight) and the reasoning 16 (weight 0.2)
C10_Witness ==
    /\ Done
    /\ state["validation_passed"]
    /\ Len(state["evidence"]) = 30
    /\ Len(state["reasoning"]) = 16
    /\ state["confidence_score"] = 70

\* C11: whatever value MIN_CONFIDENCE_TO_PUBLISH is configured to, the decision
\* at DONE is PUBLISH exactly when the score is at least that value, and HOLD
\* otherwise; in particular a score equal to the threshold is published.
C11_PublishIffAtLeastThreshold ==
    Done =>
        /\ state["decision"] \in {"PUBLISH", "HOLD"}
        /\ state["decision"] = "PUBLISH"
              <=> state["confidence_score"] >= env.min_confidence
        /\ state["confidence_score"] = env.min_confidence
              => state["decision"] = "PUBLISH"

\* a score of 0.7 published under a threshold configured to 0.7
C11_Witness ==
    /\ Done
    /\ env.min_confidence = 70
    /\ state["confidence_score"] = 70
    /\ state["decision"] = "PUBLISH"

\* C12: after the validator has run, the issue list holds the invalid-tags
\* issue (naming the tags that are no taxonomy key) exactly when some proposed
\* tag is not a key of the taxonomy, "No tags selected" exactly when
\* proposed_tags is empty, "Evidence too short" exactly when the evidence has
\* fewer than MIN_EVIDENCE_CHARS characters, each at most once and nothing
\* else; validation_passed is true exactly when the list is empty.
C12_ValidatorCollectsEveryIssue ==
    (InRun /\ node \in {"retry", "scorer", "END"}) =>
        LET allowed  == DOMAIN state["taxonomy"]
            proposed == Range(state["proposed_tags"])
            issues   == state["validation_issues"]
            invalid  == "Invalid tags: " \o SetRepr(proposed \ allowed)
        IN  /\ (\E j \in 1..Len(issues) : issues[j] = invalid)
                  <=> (\E t \in proposed : t \notin allowed)
            /\ (\E j \in 1..Len(issues) : issues[j] = "No tags selected")
                  <=> state["proposed_tags"] = <<>>
            /\ (\E j \in 1..Len(issues) : issues[j] = "Evidence too short")
                  <=> Len(state["evidence"]) < MIN_EVIDENCE_CHARS
            /\ Range(issues) \subseteq
                  {invalid, "No tags selected", "Evidence too short"}
            /\ Cardinality(Range(issues)) = Len(issues)
            /\ state["validation_passed"] <=> issues = <<>>

\* two checks violated at once: a tag outside the taxonomy and an evidence of
\* nine characters
C12_Witness ==
    /\ InRun
    /\ node = "scorer"
    /\ state["proposed_tags"] = <<"A", "C">>
    /\ Len(state["evidence"]) = MIN_EVIDENCE_CHARS - 1
    /\ state["validation_issues"] = <<"Invalid tags: {'C'}", "Evidence too short">>
    /\ ~state["validation_passed"]

\* C13: the retry step adds exactly 1 to retag_count, changes no other field of
\* the state and adds or removes none, and hands over to the tagger; it is
\* entered only from the validator, and never once the run has reached the
\* scorer or DONE.
C13_RetryOnlyIncrements ==
    [][/\ (InRun /\ node = "retry") =>
            /\ InRun'
            /\ node' = "tagger"
            /\ DOMAIN state' = DOMAIN state
            /\ state'["retag_count"] = state["retag_count"] + 1
            /\ \A f \in DOMAIN state \ {"retag_count"} : state'[f] = state[f]
       /\ node' = "retry" => (InRun /\ node = "validator")
       /\ (InRun /\ node \in {"scorer", "END"}) => node' \notin {"retry", "tagger"}]_vars

\* the tagger re-entered after one retry, the failed attempt's tags, evidence
\* and issues still in the state
C13_Witness ==
    /\ InRun
    /\ node = "tagger"
    /\ state["retag_count"] = 1
    /\ state["proposed_tags"] = <<"A", "C">>
    /\ state["validation_issues"] # <<>>
    /\ ~state["validation_passed"]

\* C14: what the tagger stores is taken from the first of the three stages
\* that yields an object -- (1) the fenced block, (2) the span from the first
\* "{" to the last "}", (3) the whole reply -- a later stage being tried
\* whenever an earlier one did not yield an object; the empty defaults are
\* stored only when no stage yields an object.
C14_FirstSuccessfulStageWins ==
    (InRun /\ node = "validator" /\ "reply" \in DOMAIN env) =>
        LET text    == env.reply.text
            payload == env.reply.payload
            failed  == [ok |-> FALSE, isdict |-> FALSE, dict |-> EmptyDict]
            stage1  == IF FenceMatches(text) # {}
                       THEN json_loads(SubSeq(text, FenceSearch(text)[2],
                                              FenceSearch(text)[3]), payload)
                       ELSE failed
            stage2  == IF Find(text, "{") # 0
                       THEN json_loads(SubSeq(text, Find(text, "{"),
                                              RFind(text, "}")), payload)
                       ELSE failed
            stage3  == json_loads(text, payload)
            data    == IF stage1.ok /\ stage1.isdict THEN stage1.dict
                       ELSE IF stage2.ok /\ stage2.isdict THEN stage2.dict
                       ELSE IF stage3.ok /\ stage3.isdict THEN stage3.dict
                       ELSE EmptyDict
        IN  /\ state["proposed_tags"] = Get(data, "tags", <<>>)
            /\ state["evidence"] = Get(data, "evidence", "")

\* C15: at DONE the rationale of a HOLD is "Issues: " followed by the list
\* validation_issues as printed, that list being what the validator finds
\* on the tags and evidence the run ended with ("Issues: []" when validation
\* passed and the score is below the threshold); the rationale of a PUBLISH is
\* "Score <score> >= <threshold>" and names no issue.
C15_RationaleMatchesDecision ==
    Done =>
        IF state["decision"] = "HOLD"
        THEN /\ state["validation_issues"] = validator_issues(state)
             /\ state["decision_rationale"] =
                    "Issues: " \o ListRepr(state["validation_issues"])
             /\ state["validation_passed"] => state["decision_rationale"] = "Issues: []"
        ELSE /\ state["decision"] = "PUBLISH"
             /\ state["decision_rationale"] =
                    "Score " \o FloatRepr(state["confidence_score"]) \o " >= "
                        \o FloatRepr(MIN_CONFIDENCE_TO_PUBLISH)

\* a HOLD after a validation that passed: score 0.5, no issue to list
C15_Witness ==
    /\ Done
    /\ state["decision"] = "HOLD"
    /\ state["validation_passed"]
    /\ state["confidence_score"] = 50
    /\ state["decision_rationale"] = "Issues: []"

\* C16: the output file is not written while main is loading or in the loop:
\* until main has left the loop nothing has been written, the records exist only
\* in final_results; when the file is written every row of the input has been
\* processed (its run ended at DONE or raised) and the file holds final_results.
C16_OutputOnlyAfterLoop ==
    /\ pc \in {"load", "loop", "invoke"} => output = [written |-> FALSE, rows |-> <<>>]
    /\ output.written =>
          /\ pc = "exit"
          /\ i = env.nrows
          /\ Len(hist) = env.nrows
          /\ output.rows = final_results

\* in the loop with rows still to process: a record is held in memory, nothing
\* is written
C16_Witness ==
    /\ pc = "invoke"
    /\ i < env.nrows
    /\ Len(final_results) >= 1
    /\ ~output.written
    /\ output.rows = <<>>

\* C17: no step of a run changes proposal_id, description or taxonomy, and the
\* taxonomy in the state is main's tax_dict, which nothing changes once it is
\* loaded; every run starts from the state main builds from the row and the
\* taxonomy alone -- retag_count 0, no tags, empty evidence, validation not
\* passed with no issues, no reasoning, score, decision or rationale -- and
\* between two runs nothing of a run is kept but the records collected.
C17_InputsReadOnlyRunsFresh ==
    /\ [](InRun => state["taxonomy"] = tax_dict)
    /\ [](~InRun => (state = EmptyDict /\ node = "none" /\ run = NoRun))
    /\ [][/\ env' = env
          /\ pc # "load" => tax_dict' = tax_dict
          /\ (InRun /\ InRun') =>
                /\ state'["proposal_id"] = state["proposal_id"]
                /\ state'["description"] = state["description"]
                /\ state'["taxonomy"] = state["taxonomy"]
          /\ (~InRun /\ InRun') =>
                state' = [proposal_id |-> ToString(i),
                          description |-> Row(i).description,
                          taxonomy |-> tax_dict,
                          retag_count |-> 0,
                          proposed_tags |-> <<>>,
                          evidence |-> "",
                          validation_passed |-> FALSE,
                          validation_issues |-> <<>>]]_vars

\* the second proposal's run starts fresh after the first one ended at DONE
\* with the tags A and C (C is no taxonomy key, so after its retries)
C17_Witness ==
    /\ InRun
    /\ node = "tagger"
    /\ i = 1
    /\ state["proposal_id"] = "1"
    /\ state["retag_count"] = 0
    /\ state["proposed_tags"] = <<>>
    /\ Len(final_results) = 1
    /\ final_results[1].tags = "A, C"
    /\ final_results[1].id = "0"

\* C18: with MIN_CONFIDENCE_TO_PUBLISH at its default 0.65, the decision at
\* DONE is PUBLISH exactly when the validation passed and the evidence is
\* longer than 30 characters or the reasoning longer than 15; so a PUBLISH has
\* validation_passed, no issues, at least one tag and an evidence of at least
\* MIN_EVIDENCE_CHARS characters, and a passed validation with neither length
\* bonus (score 0.5) is a HOLD.
C18_PublishNeedsValidationAndBonus ==
    (Done /\ env.min_confidence = MIN_CONFIDENCE_TO_PUBLISH) =>
        /\ state["decision"] = "PUBLISH"
              <=> /\ state["validation_passed"]
                  /\ \/ Len(state["evidence"]) > 30
                     \/ Len(state["reasoning"]) > 15
        /\ state["decision"] = "PUBLISH"
              => /\ state["validation_passed"]
                 /\ state["validation_issues"] = <<>>
                 /\ Len(state["proposed_tags"]) >= 1
                 /\ Len(state["evidence"]) >= MIN_EVIDENCE_CHARS
        /\ (state["validation_passed"] /\ state["confidence_score"] = 50)
              => state["decision"] = "HOLD"

\* validation passed on the boundaries and earned no bonus: an evidence of 30
\* characters and a reasoning of 15 end in HOLD
C18_Witness ==
    /\ Done
    /\ state["validation_passed"]
    /\ Len(state["evidence"]) = 30
    /\ Len(state["reasoning"]) = 15
    /\ state["confidence_score"] = 50
    /\ state["decision"] = "HOLD"

\* C19: whenever the routing after the validator has been decided, and when
\* the retry step or the scorer runs or has run, validation_issues is what the
\* validator finds on the proposed_tags and evidence now in the state and
\* validation_passed says whether that list is empty; every execution of the
\* tagger has by then been followed by one of the validator, and the validator
\* is what runs next after the tagger.
C19_DecisionsUseCurrentValidation ==
    /\ (InRun /\ node \in {"retry", "scorer", "END"}) =>
          /\ state["validation_issues"] = validator_issues(state)
          /\ state["validation_passed"] = (validator_issues(state) = <<>>)
          /\ run.calls = run.passed + run.failed
          /\ node = "retry" <=> should_retry(state) = "retry"
    /\ (InRun /\ node = "validator") => run.calls = run.passed + run.failed + 1
    /\ (InRun /\ node = "tagger") => run.calls = run.passed + run.failed

\* the scorer is about to run on an attempt that passed after an attempt that
\* failed
C19_Witness ==
    /\ InRun
    /\ node = "scorer"
    /\ run.failed = 1
    /\ run.passed = 1
    /\ state["validation_passed"]
    /\ state["validation_issues"] = <<>>

\* C20: at DONE the tagger has run retag_count + 1 times in the run, which is
\* between 1 and MAX_RETRY_ATTEMPTS + 1; the retry step is reached only with a
\* failed validation in the state, every retry so far was preceded by a failed
\* validation of its own, and the first validation that passes is the last one
\* of the run, so a run at DONE with retag_count < MAX_RETRY_ATTEMPTS has
\* validation_passed.
C20_CallsAreRetriesPlusOne ==
    /\ Done =>
          /\ run.calls = state["retag_count"] + 1
          /\ run.calls \in 1..(MAX_RETRY_ATTEMPTS + 1)
          /\ state["retag_count"] < MAX_RETRY_ATTEMPTS => state["validation_passed"]
    /\ (InRun /\ node = "retry") =>
          /\ ~state["validation_passed"]
          /\ run.failed = state["retag_count"] + 1
    /\ (InRun /\ node # "retry") => run.failed >= state["retag_count"]
    /\ InRun => run.passed <= 1
    /\ (InRun /\ run.passed = 1) =>
          /\ node \in {"scorer", "END"}
          /\ run.failed = state["retag_count"]

\* a run at DONE after one retry: the second attempt passed validation
C20_Witness ==
    /\ Done
    /\ state["retag_count"] = 1
    /\ run.calls = 2
    /\ run.failed = 1
    /\ state["validation_passed"]

====
